---- MODULE Spec2Model ----
(***************************************************************************)
(* The mock GDB remote-serial-protocol server of                           *)
(* packages/Python/lldbsuite/test/functionalities/gdb_remote_client/       *)
(* gdbclientutils.py: framing codec, streaming packet parser, responder    *)
(* dispatch and the server's connection thread.                            *)
(*                                                                         *)
(* A Python string is a sequence of one-character strings.  Python's       *)
(* 0-based index i is the TLA+ index i + 1; the slice data[a:b] is         *)
(* SubSeq(data, a + 1, b).                                                  *)
(***************************************************************************)
EXTENDS Integers, Sequences, FiniteSets, TLC

\* ------------------------------------------------------------------ bounds

\* Number of send() calls the client makes on the connection.
MaxSends == 3

\* Number of send() calls the client makes in a command session.
MaxCommands == 2

\* Length of the data an overridden qXferRead returns.
MaxXferLen == 2

\* Length of the byte strings given to the hex codec.
MaxHexLen == 3

\* The size argument of recv() in _run.
RecvSize == 4096

\* ------------------------------------------------------------------- state

VARIABLES
    ownerPc,             \* the owning thread: "init", "bound", "started", "stopping", "stopped"
    sock,                \* _socket: "created", "listening", "closed"
    threadPc,            \* _run: "none", "accept", "recv", "done", "raised"
    client,              \* _client: "none", "open", "closed"
    peer,                \* the client's end: "idle", "connecting", "connected", "closed"
    pending,             \* bytes the client has sent and recv() has not returned yet
    nSent,               \* number of send() calls of the client
    receivedData,        \* _receivedData ("" stands for None before the accept)
    receivedDataOffset,  \* _receivedDataOffset (0 stands for None before the accept)
    shouldSendAck,       \* _shouldSendAck
    isExpectingAck,      \* _isExpectingAck
    packetLog,           \* responder.packetLog
    wire,                \* history: every sendall() of the server, with the event served
    events,              \* history: every result of _parsePacket other than None
    consumed,            \* history: all bytes recv() has returned
    parked,              \* history: a read ended with "#" found and the checksum cut
    port,                \* the port field of the server
    boundPort,           \* the port _socket is bound to (0: not bound)
    qXferOverride,       \* what qXferRead of the responder's class returns
    codec                \* a caller of hex_encode_bytes and hex_decode_bytes

\* ------------------------------------------------------------- characters

\* The printable ASCII characters, code points 32..126, in order (code point 96
\* is written "<grave>").
Printable ==
    << " ", "!", "\"", "#", "$", "%", "&", "'", "(", ")", "*", "+", ",", "-", ".", "/",
       "0", "1", "2", "3", "4", "5", "6", "7", "8", "9", ":", ";", "<", "=", ">", "?",
       "@", "A", "B", "C", "D", "E", "F", "G", "H", "I", "J", "K", "L", "M", "N", "O",
       "P", "Q", "R", "S", "T", "U", "V", "W", "X", "Y", "Z", "[", "\\", "]", "^", "_",
       "<grave>", "a", "b", "c", "d", "e", "f", "g", "h", "i", "j", "k", "l", "m", "n", "o",
       "p", "q", "r", "s", "t", "u", "v", "w", "x", "y", "z", "{", "|", "}", "~" >>

\* chr(n), 0 <= n < 256: a character outside the printable range is written
\* by its code point, as in "<3>".
Chr(n) == IF n >= 32 /\ n <= 126 THEN Printable[n - 31] ELSE "<" \o ToString(n) \o ">"

\* The code point of every character.
CodePoint == [c \in {Chr(n) : n \in 0..255} |-> CHOOSE n \in 0..255 : Chr(n) = c]

\* ord(c)
Ord(c) == CodePoint[c]

\* Mutant: "the original byte mod 0x20".
Xor20_Mod(d) == d % 32

\* d ^ 0x20
Xor20(d) == IF (d \div 32) % 2 = 1 THEN d - 32 ELSE d + 32

\* The digits "%x" prints, by value.
HexDigits ==
    << "0", "1", "2", "3", "4", "5", "6", "7", "8", "9", "a", "b", "c", "d", "e", "f" >>

UpperHexDigits ==
    << "0", "1", "2", "3", "4", "5", "6", "7", "8", "9", "A", "B", "C", "D", "E", "F" >>

IsHexDigit(c) == \E k \in 1..16 : HexDigits[k] = c \/ UpperHexDigits[k] = c

HexDigitValue(c) ==
    (CHOOSE k \in 1..16 : HexDigits[k] = c \/ UpperHexDigits[k] = c) - 1

\* Mutant: "%x", without the zero padding.
Hex02_NoPad(n) ==
    IF n < 16 THEN << HexDigits[n + 1] >>
    ELSE << HexDigits[(n \div 16) + 1], HexDigits[(n % 16) + 1] >>

\* Mutant: "%02X", upper-case digits.
Hex02_Upper(n) == << UpperHexDigits[(n \div 16) + 1], UpperHexDigits[(n % 16) + 1] >>

\* "%02x" % n, for 0 <= n < 256
Hex02(n) == << HexDigits[(n \div 16) + 1], HexDigits[(n % 16) + 1] >>

\* ------------------------------------------------------------ int(s, 16)

\* The value of a non-empty string of hex digits.
RECURSIVE HexDigitsValue(_)
HexDigitsValue(s) ==
    IF s = << >> THEN 0
    ELSE 16 * HexDigitsValue(SubSeq(s, 1, Len(s) - 1)) + HexDigitValue(s[Len(s)])

AllHexDigits(s) == s # << >> /\ \A k \in 1..Len(s) : IsHexDigit(s[k])

\* str.strip() of the blanks int() ignores around the literal.
RECURSIVE StripBlanks(_)
StripBlanks(s) ==
    IF s # << >> /\ s[1] = " " THEN StripBlanks(Tail(s))
    ELSE IF s # << >> /\ s[Len(s)] = " " THEN StripBlanks(SubSeq(s, 1, Len(s) - 1))
    ELSE s

\* The literal without its optional sign.
Unsigned(s) == IF s # << >> /\ s[1] \in {"+", "-"} THEN Tail(s) ELSE s

\* The literal without its optional base prefix 0x / 0X.
Unprefixed(s) ==
    IF Len(s) >= 2 /\ s[1] = "0" /\ s[2] \in {"x", "X"} THEN SubSeq(s, 3, Len(s)) ELSE s

\* int(s, 16) succeeds: blanks, an optional sign, an optional 0x, hex digits.
IntBase16Ok(s) == AllHexDigits(Unprefixed(Unsigned(StripBlanks(s))))

\* int(s, 16), when it succeeds.
IntBase16(s) ==
    LET t == StripBlanks(s)
        v == HexDigitsValue(Unprefixed(Unsigned(t)))
    IN  IF t[1] = "-" THEN 0 - v ELSE v

\* ----------------------------------------------------------------- codec

\* checksum(message): the sum of the character codes, modulo 256.
\* The loop "for c in message: check += ord(c)"; the sum is taken by halves,
\* which keeps the evaluation shallow on a long message.
RECURSIVE SumOrd(_)
SumOrd(message) ==
    IF message = << >> THEN 0
    ELSE IF Len(message) = 1 THEN Ord(message[1])
    ELSE LET h == Len(message) \div 2
         IN  SumOrd(SubSeq(message, 1, h)) + SumOrd(SubSeq(message, h + 1, Len(message)))

\* Mutant: the sum is taken modulo 255.
checksum_Mod255(message) == SumOrd(message) % 255

checksum(message) == SumOrd(message) % 256

\* frame_packet(message): "$%s#%02x" % (message, checksum(message))
frame_packet(message) == << "$" >> \o message \o << "#" >> \o Hex02(checksum(message))

\* escape_binary(message): "#", "$" and "}" become "}" and the character
\* xor 0x20; every other character is kept.
\* Mutant: "{" (0x7b) is escaped as well.
RECURSIVE escape_binary_OpenBrace(_)
escape_binary_OpenBrace(message) ==
    IF message = << >> THEN << >>
    ELSE LET c == Head(message)
             d == Ord(c)
         IN  (IF d \in {35, 36, 123, 125} THEN << Chr(125), Chr(Xor20(d)) >> ELSE << c >>)
                 \o escape_binary_OpenBrace(Tail(message))

\* Mutant: nothing is escaped.
escape_binary_None(message) == message

RECURSIVE escape_binary(_)
escape_binary(message) ==
    IF message = << >> THEN << >>
    ELSE LET c == Head(message)
             d == Ord(c)
         IN  (IF d \in {35, 36, 125} THEN << Chr(125), Chr(Xor20(d)) >> ELSE << c >>)
                 \o escape_binary(Tail(message))

\* -------------------------------------------------------------- strings

\* The command strings the code compares against.  Str_* spell Python literals.
Str_QStartNoAckMode ==
    << "Q", "S", "t", "a", "r", "t", "N", "o", "A", "c", "k", "M", "o", "d", "e" >>
Str_qSymbol == << "q", "S", "y", "m", "b", "o", "l" >>
Str_qSupported == << "q", "S", "u", "p", "p", "o", "r", "t", "e", "d" >>
Str_qfThreadInfo == << "q", "f", "T", "h", "r", "e", "a", "d", "I", "n", "f", "o" >>
Str_qXfer == << "q", "X", "f", "e", "r", ":" >>
Str_OK == << "O", "K" >>
Str_00000000 == << "0", "0", "0", "0", "0", "0", "0", "0" >>
Str_PacketSize ==
    << "P", "a", "c", "k", "e", "t", "S", "i", "z", "e", "=", "3", "f", "f", "f", ";",
       "Q", "S", "t", "a", "r", "t", "N", "o", "A", "c", "k", "M", "o", "d", "e", "+" >>

\* s[a:b] with 0 <= a: SubSeq clipped to the string, as a Python slice is.
Slice(s, a, b) == SubSeq(s, a + 1, IF b > Len(s) THEN Len(s) ELSE b)

\* s * n: the empty string when n <= 0.
RECURSIVE Repeat(_, _)
Repeat(s, n) == IF n <= 0 THEN << >> ELSE s \o Repeat(s, n - 1)

\* s.split(sep), sep one character: the fields between the separators.
RECURSIVE Split(_, _)
Split(s, sep) ==
    IF \A k \in 1..Len(s) : s[k] # sep THEN << s >>
    ELSE LET k == CHOOSE k \in 1..Len(s) :
                      s[k] = sep /\ \A j \in 1..(k - 1) : s[j] # sep
         IN  << SubSeq(s, 1, k - 1) >> \o Split(SubSeq(s, k + 1, Len(s)), sep)

\* ------------------------------------------------------------- responder

\* MockGDBServerResponder.registerCount
registerCount == 40

\* A handler's outcome: a reply, or an exception that leaves respond().
Reply(r) == [raised |-> FALSE, reply |-> r]
Raised == [raised |-> TRUE, reply |-> << >>]

\* hex_encode_bytes(message): "%02x" % ord(c) for each c.
RECURSIVE hex_encode_bytes(_)
hex_encode_bytes(message) ==
    IF message = << >> THEN << >>
    ELSE Hex02(Ord(Head(message))) \o hex_encode_bytes(Tail(message))

\* hex_decode_bytes(hex_bytes): the loop test "while i < hex_len - 1" reads the
\* local i, which is never assigned, so the call raises UnboundLocalError
\* before any byte is decoded, for every argument.
hex_decode_bytes(hex_bytes) == Raised

readRegisters == Reply(Repeat(Str_00000000, registerCount))
readRegister(register) == Reply(Str_00000000)
writeRegisters(registers_hex) == Reply(Str_OK)
writeRegister(register, value_hex) == Reply(Str_OK)
\* Mutant: one hex digit for each byte read.
readMemory_OneDigit(addr, length) == Reply(Repeat(<< "0" >>, length))

readMemory(addr, length) == Reply(Repeat(<< "0", "0" >>, length))
writeMemory(addr, data_hex) == Reply(Str_OK)
qSymbol(symbol_args) == Reply(Str_OK)
qSupported(client_supported) == Reply(Str_PacketSize)
qfThreadInfo == Reply(<< "l" >>)
qC == Reply(<< "Q", "C", "0" >>)
haltReason == Reply(<< "S", "0", "2" >>)
selectThread(op, thread_id) == Reply(Str_OK)
other(packet) == Reply(<< >>)

\* qXferRead of the base class: (None, False).
qXferReadBase == [hasData |-> FALSE, data |-> << >>, has_more |-> FALSE]

\* self.qXferRead(obj, annex, offset, length): the method of the responder's
\* class, which a subclass overrides to return (data, has_more).
qXferRead(override, obj, annex, offset, length) == override

\* Mutant: the prefixes "m" and "l" are exchanged.
qXferResponse_Swapped(data, has_more) ==
    Reply(<< IF has_more THEN "l" ELSE "m" >> \o escape_binary(data))

\* _qXferResponse(data, has_more)
qXferResponse(data, has_more) ==
    Reply(<< IF has_more THEN "m" ELSE "l" >> \o escape_binary(data))

\* The call "self.readRegister(int(register, 16), value)" of the "P" branch:
\* readRegister(self, register) takes no second argument, so the call raises
\* TypeError before any handler body runs.
readRegisterWithValue(register, value) == Raised

\* "addr,length" unpacked into two ints: both fields must convert.
TwoInts(location) ==
    LET f == Split(location, ",")
    IN  Len(f) = 2 /\ IntBase16Ok(f[1]) /\ IntBase16Ok(f[2])

\* respond(packet) after the append to packetLog: the dispatch chain, first
\* match wins.  packet[0] of the empty packet raises IndexError; a field int()
\* rejects raises ValueError; an unpacking of the wrong number of fields raises
\* ValueError; readRegister called with two arguments raises TypeError.
Dispatch(packet) ==
    IF packet = << "g" >> THEN readRegisters
    ELSE IF packet = << >> THEN Raised
    ELSE IF packet[1] = "G" THEN writeRegisters(Tail(packet))
    ELSE IF packet[1] = "p" THEN
        IF IntBase16Ok(Tail(packet)) THEN readRegister(IntBase16(Tail(packet))) ELSE Raised
    ELSE IF packet[1] = "P" THEN
        LET f == Split(Tail(packet), "=")
        IN  IF Len(f) = 2 /\ IntBase16Ok(f[1])
            THEN readRegisterWithValue(IntBase16(f[1]), f[2])
            ELSE Raised
    ELSE IF packet[1] = "m" THEN
        IF TwoInts(Tail(packet))
        THEN LET f == Split(Tail(packet), ",")
             IN  readMemory(IntBase16(f[1]), IntBase16(f[2]))
        ELSE Raised
    ELSE IF packet[1] = "M" THEN
        LET f == Split(Tail(packet), ":")
        IN  IF Len(f) = 2 /\ TwoInts(f[1])
            THEN writeMemory(IntBase16(Split(f[1], ",")[1]), f[2])
            ELSE Raised
    ELSE IF Slice(packet, 0, 7) = Str_qSymbol THEN qSymbol(Slice(packet, 8, Len(packet)))
    ELSE IF Slice(packet, 0, 10) = Str_qSupported
        THEN qSupported(Split(Slice(packet, 11, Len(packet)), ";"))
    ELSE IF packet = Str_qfThreadInfo THEN qfThreadInfo
    ELSE IF packet = << "q", "C" >> THEN qC
    ELSE IF packet = << "?" >> THEN haltReason
    ELSE IF packet[1] = "H" THEN
        IF Len(packet) >= 2 /\ IntBase16Ok(Slice(packet, 2, Len(packet)))
        THEN selectThread(packet[2], IntBase16(Slice(packet, 2, Len(packet))))
        ELSE Raised
    ELSE IF Slice(packet, 0, 6) = Str_qXfer THEN
        LET f == Split(Slice(packet, 6, Len(packet)), ":")
        IN  IF Len(f) = 4 /\ TwoInts(f[4])
            THEN LET loc == Split(f[4], ",")
                     x == qXferRead(qXferOverride, f[1], f[3], IntBase16(loc[1]), IntBase16(loc[2]))
                 IN  IF x.hasData THEN qXferResponse(x.data, x.has_more) ELSE Reply(<< >>)
            ELSE Raised
    ELSE other(packet)

\* ---------------------------------------------------------------- parser

\* The scan for the end of the packet content from index i: stops on "#" or
\* at the end of the data.
RECURSIVE ScanToHash(_, _)
ScanToHash(data, i) ==
    IF i < Len(data) /\ data[i + 1] # "#" THEN ScanToHash(data, i + 1) ELSE i

\* Mutant: the test is off by one and lets a single checksum digit through.
NotEnoughForChecksum_OneDigit(i, data_len) == i > data_len - 2

\* "There isn't enough data left for a checksum": i > data_len - 3.
NotEnoughForChecksum(i, data_len) == i > data_len - 3

\* What one call of _parsePacket does: res is "none" (returns None), "ack"
\* (returns PACKET_ACK), "packet" (returns the contents) or "invalid" (raises
\* InvalidPacketException; why tells which raise).  data and offset are
\* _receivedData and _receivedDataOffset when the call ends.
ParseResult(res, packet, trailer, why, data, offset) ==
    [res |-> res, packet |-> packet, trailer |-> trailer, why |-> why,
     data |-> data, offset |-> offset]

\* Mutant: the checksum is converted but never compared.
ParseComplete_NoCompare(data, offset, i) ==
    LET packet == Slice(data, 1, i)
        trailer == Slice(data, i + 1, i + 3)
    IN  IF ~IntBase16Ok(trailer)
        THEN ParseResult("invalid", packet, trailer, "hex", data, offset)
        ELSE ParseResult("packet", packet, trailer, "", Slice(data, i + 3, Len(data)), 0)

\* Mutant: _receivedDataOffset is not reset when the packet is removed.
ParseComplete_KeepCursor(data, offset, i) ==
    LET packet == Slice(data, 1, i)
        trailer == Slice(data, i + 1, i + 3)
    IN  IF ~IntBase16Ok(trailer)
        THEN ParseResult("invalid", packet, trailer, "hex", data, offset)
        ELSE IF IntBase16(trailer) # checksum(packet)
        THEN ParseResult("invalid", packet, trailer, "sum", data, offset)
        ELSE ParseResult("packet", packet, trailer, "", Slice(data, i + 3, Len(data)), offset)

\* The checksum check on the complete packet that ends at index i.
ParseComplete(data, offset, i) ==
    LET packet == Slice(data, 1, i)
        trailer == Slice(data, i + 1, i + 3)
    IN  IF ~IntBase16Ok(trailer)
        THEN ParseResult("invalid", packet, trailer, "hex", data, offset)
        ELSE IF IntBase16(trailer) # checksum(packet)
        THEN ParseResult("invalid", packet, trailer, "sum", data, offset)
        ELSE ParseResult("packet", packet, trailer, "", Slice(data, i + 3, Len(data)), 0)

\* Mutant: any leading byte starts a packet.
IsPacketStart_Any(c) == TRUE

\* "$" denotes the start of a new packet.
IsPacketStart(c) == c = "$"

\* Mutant: an incomplete packet loses the bytes scanned so far.
parsePacket_DropsScanned(data, offset) ==
    LET data_len == Len(data)
    IN  IF data_len = 0 THEN ParseResult("none", << >>, << >>, "", data, offset)
        ELSE IF offset = 0 /\ data[1] = "+"
        THEN ParseResult("ack", << >>, << >>, "", Tail(data), offset)
        ELSE IF offset = 0 /\ ~IsPacketStart(data[1])
        THEN ParseResult("invalid", << >>, << >>, "lead", data, offset)
        ELSE LET i == ScanToHash(data, IF offset = 0 THEN 1 ELSE offset)
             IN  IF NotEnoughForChecksum(i, data_len)
                 THEN ParseResult("none", << >>, << >>, "", Slice(data, i, data_len), i)
                 ELSE ParseComplete(data, offset, i)

parsePacket(data, offset) ==
    LET data_len == Len(data)
    IN  IF data_len = 0 THEN ParseResult("none", << >>, << >>, "", data, offset)
        ELSE IF offset = 0 /\ data[1] = "+"
        THEN ParseResult("ack", << >>, << >>, "", Tail(data), offset)
        ELSE IF offset = 0 /\ ~IsPacketStart(data[1])
        THEN ParseResult("invalid", << >>, << >>, "lead", data, offset)
        ELSE LET i == ScanToHash(data, IF offset = 0 THEN 1 ELSE offset)
             IN  IF NotEnoughForChecksum(i, data_len)
                 THEN ParseResult("none", << >>, << >>, "", data, i)
                 ELSE ParseComplete(data, offset, i)

\* ---------------------------------------------------------------- server

vars ==
    << ownerPc, sock, threadPc, client, peer, pending, nSent, receivedData,
       receivedDataOffset, shouldSendAck, isExpectingAck, packetLog, wire, events,
       consumed, parked, port, boundPort, qXferOverride, codec >>

connVars ==
    << receivedData, receivedDataOffset, shouldSendAck, isExpectingAck, packetLog,
       wire, events, consumed, parked >>

\* The fields _receive reads and writes, as one value; status is "ok",
\* "invalid" (InvalidPacketException was caught: _client.close()) or "raised"
\* (another exception left _receive).
ServerState ==
    [data |-> receivedData, offset |-> receivedDataOffset, acks |-> shouldSendAck,
     expecting |-> isExpectingAck, log |-> packetLog, wire |-> wire,
     events |-> events, status |-> "ok"]

\* Mutant: the newest write goes out ahead of the earlier ones.
Sent_Ahead(st, bytes) ==
    [st EXCEPT !.wire = << [ev |-> Len(st.events), bytes |-> bytes] >> \o @]

\* One sendall(bytes) while serving event number ev.
Sent(st, bytes) == [st EXCEPT !.wire = Append(@, [ev |-> Len(st.events), bytes |-> bytes])]

\* Mutant: the test of _isExpectingAck is inverted.
HandleAck_Inverted(st) == IF st.expecting THEN Sent(st, << "+" >>) ELSE st

\* Mutant: every Ack token is answered, whatever _isExpectingAck is.
HandleAck_Always(st) == Sent(st, << "+" >>)

\* Mutant: the Ack token is appended to the command log.
HandleAck_Logged(st) ==
    LET logged == [st EXCEPT !.log = Append(@, << "+" >>)]
    IN  IF ~st.expecting THEN Sent(logged, << "+" >>) ELSE logged

\* _handlePacket, the PACKET_ACK branch.
HandleAck(st) == IF ~st.expecting THEN Sent(st, << "+" >>) ELSE st

\* Mutant: the "+" is sent and _isExpectingAck is not set.
AckCommand_NotExpecting(st) == IF st.acks THEN Sent(st, << "+" >>) ELSE st

\* _handlePacket: "if self._shouldSendAck: sendall('+'); _isExpectingAck = True".
AckCommand(st) ==
    IF st.acks THEN [Sent(st, << "+" >>) EXCEPT !.expecting = TRUE] ELSE st

\* Mutant: the packet is put at the front of packetLog.
Respond_LogAtFront(st, packet) ==
    LET logged == [st EXCEPT !.log = << packet >> \o @]
        r == Dispatch(packet)
    IN  IF r.raised THEN [logged EXCEPT !.status = "raised"]
        ELSE Sent(logged, frame_packet(r.reply))

\* Mutant: the packet is logged after its handler has returned.
Respond_LogAfterHandler(st, packet) ==
    LET r == Dispatch(packet)
    IN  IF r.raised THEN [st EXCEPT !.status = "raised"]
        ELSE Sent([st EXCEPT !.log = Append(@, packet)], frame_packet(r.reply))

\* Mutant: the responder clears _isExpectingAck of the server.
Respond_ClearsExpecting(st, packet) ==
    LET logged == [st EXCEPT !.log = Append(@, packet), !.expecting = FALSE]
        r == Dispatch(packet)
    IN  IF r.raised THEN [logged EXCEPT !.status = "raised"]
        ELSE Sent(logged, frame_packet(r.reply))

\* responder.respond(packet): the append to packetLog, then the dispatch.
Respond(st, packet) ==
    LET logged == [st EXCEPT !.log = Append(@, packet)]
        r == Dispatch(packet)
    IN  IF r.raised THEN [logged EXCEPT !.status = "raised"]
        ELSE Sent(logged, frame_packet(r.reply))

\* Mutant: "OK" is sent and _shouldSendAck is left as it is.
StartNoAckMode_KeepAcks(st) == Sent(st, frame_packet(Str_OK))

\* Mutant: the command toggles _shouldSendAck.
StartNoAckMode_Toggle(st) == Sent([st EXCEPT !.acks = ~@], frame_packet(Str_OK))

\* _handlePacket, the QStartNoAckMode branch.
StartNoAckMode(st) == Sent([st EXCEPT !.acks = FALSE], frame_packet(Str_OK))

\* Mutant: QStartNoAckMode is not intercepted and goes to the responder.
HandleCommand_NoIntercept(st, packet) == Respond(AckCommand(st), packet)

\* Mutant: the "+" is written after the responder has returned.
HandleCommand_AckAfter(st, packet) ==
    IF packet = Str_QStartNoAckMode THEN StartNoAckMode(AckCommand(st))
    ELSE LET answered == Respond(st, packet)
         IN  IF answered.status = "raised" THEN answered ELSE AckCommand(answered)

\* _handlePacket, a command packet.
HandleCommand(st, packet) ==
    LET acked == AckCommand(st)
    IN  IF packet = Str_QStartNoAckMode THEN StartNoAckMode(acked)
        ELSE Respond(acked, packet)

\* The entry of the events history for a result of _parsePacket: the flags are
\* those the event is handled under, cursor is _receivedDataOffset when
\* _parsePacket returns (a raise leaves the field where the last read left it,
\* and the history keeps 0 for it).
Event(st, r) ==
    [res |-> r.res, packet |-> r.packet, trailer |-> r.trailer, why |-> r.why,
     acks |-> st.acks, expecting |-> st.expecting,
     cursor |-> IF r.res = "invalid" THEN 0 ELSE r.offset]

\* Mutant: "if packet is not None" in place of the while loop.
ParseLoop_Once(st) ==
    LET r == parsePacket(st.data, st.offset)
        seen == [st EXCEPT !.data = r.data, !.offset = r.offset,
                           !.events = Append(@, Event(st, r))]
    IN  IF r.res = "none" THEN [st EXCEPT !.data = r.data, !.offset = r.offset]
        ELSE IF r.res = "invalid" THEN [seen EXCEPT !.status = "invalid"]
        ELSE IF r.res = "ack" THEN HandleAck(seen)
        ELSE HandleCommand(seen, r.packet)

\* The loop of _receive after "self._receivedData += data".
RECURSIVE ParseLoop(_)
ParseLoop(st) ==
    LET r == parsePacket(st.data, st.offset)
        seen == [st EXCEPT !.data = r.data, !.offset = r.offset,
                           !.events = Append(@, Event(st, r))]
    IN  IF r.res = "none" THEN [st EXCEPT !.data = r.data, !.offset = r.offset]
        ELSE IF r.res = "invalid" THEN [seen EXCEPT !.status = "invalid"]
        ELSE LET handled == IF r.res = "ack" THEN HandleAck(seen)
                            ELSE HandleCommand(seen, r.packet)
             IN  IF handled.status = "raised" THEN handled ELSE ParseLoop(handled)

\* _receive(data)
Receive(st, data) == ParseLoop([st EXCEPT !.data = @ \o data])

\* Mutant: the exception is caught and the socket is left open.
ClientAfterReceive_NoClose(status, c) == c

\* _receive: "except self.InvalidPacketException: self._client.close()".
ClientAfterReceive(status, c) == IF status = "invalid" THEN "closed" ELSE c

\* --------------------------------------------------------------- client

\* What the client writes with one send().
Segments ==
    { << "+" >>,
      frame_packet(Str_QStartNoAckMode),
      frame_packet(<< "?" >>),
      << "$", "g", "#", "0", "0" >>,
      << "x" >>,
      frame_packet(<< >>),
      << "$", "Z", "Z", "[", "#", "+", "f" >> }

\* --------------------------------------------------------------- actions

\* The port the operating system gives to a socket bound to port 0.
EphemeralPort == 49152

\* bind(("127.0.0.1", requested)): the port the socket is bound to.
AssignedPort(requested) == IF requested = 0 THEN EphemeralPort ELSE requested

\* MockGDBServer(port = requested) with a responder whose qXferRead is override.
Constructed(requested, override) ==
    /\ ownerPc = "init"
    /\ sock = "created"
    /\ threadPc = "none"
    /\ client = "none"
    /\ peer = "idle"
    /\ pending = << >>
    /\ nSent = 0
    /\ receivedData = << >>
    /\ receivedDataOffset = 0
    /\ shouldSendAck = TRUE
    /\ isExpectingAck = FALSE
    /\ packetLog = << >>
    /\ wire = << >>
    /\ events = << >>
    /\ consumed = << >>
    /\ parked = FALSE
    /\ port = requested
    /\ boundPort = 0
    /\ qXferOverride = override

\* No call of the hex codec is under way.
CodecIdle == [pc |-> "idle", input |-> << >>, text |-> << >>, output |-> << >>]

\* MockGDBServer() with a MockGDBServerResponder.
Init == Constructed(0, qXferReadBase) /\ codec = CodecIdle

\* Mutant: the port field keeps the port that was asked for.
StartBind_KeepPort ==
    /\ ownerPc = "init"
    /\ ownerPc' = "bound"
    /\ sock' = "listening"
    /\ boundPort' = AssignedPort(port)
    /\ port' = port
    /\ UNCHANGED << threadPc, client, peer, pending, nSent, connVars, qXferOverride, codec >>

\* start(): bind, "self.port = self._socket.getsockname()[1]", listen.
StartBind ==
    /\ ownerPc = "init"
    /\ ownerPc' = "bound"
    /\ sock' = "listening"
    /\ boundPort' = AssignedPort(port)
    /\ port' = boundPort'
    /\ UNCHANGED << threadPc, client, peer, pending, nSent, connVars, qXferOverride, codec >>

\* start(): the thread that runs _run is started, and start() returns.
StartThread ==
    /\ ownerPc = "bound"
    /\ ownerPc' = "started"
    /\ threadPc' = "accept"
    /\ UNCHANGED << sock, client, peer, pending, nSent, connVars, port, boundPort, qXferOverride, codec >>

\* stop(), first statement: self._socket.close().
StopClose ==
    /\ ownerPc = "started"
    /\ ownerPc' = "stopping"
    /\ sock' = "closed"
    /\ UNCHANGED << threadPc, client, peer, pending, nSent, connVars, port, boundPort, qXferOverride, codec >>

\* Mutant: stop() also empties the command log.
StopJoin_ClearsLog ==
    /\ ownerPc = "stopping"
    /\ threadPc \in {"done", "raised"}
    /\ ownerPc' = "stopped"
    /\ packetLog' = << >>
    /\ UNCHANGED << sock, threadPc, client, peer, pending, nSent, receivedData,
                    receivedDataOffset, shouldSendAck, isExpectingAck, wire, events,
                    consumed, parked, port, boundPort, qXferOverride, codec >>

\* stop(), self._thread.join(): returns once _run has ended.
StopJoin ==
    /\ ownerPc = "stopping"
    /\ threadPc \in {"done", "raised"}
    /\ ownerPc' = "stopped"
    /\ UNCHANGED << sock, threadPc, client, peer, pending, nSent, connVars, port, boundPort, qXferOverride, codec >>

\* The client connects to the listening port.
ClientConnect ==
    /\ peer = "idle"
    /\ sock = "listening"
    /\ peer' = "connecting"
    /\ UNCHANGED << ownerPc, sock, threadPc, client, pending, nSent, connVars, port, boundPort, qXferOverride, codec >>

\* The client sends a segment; the bytes wait for recv().
ClientSend ==
    /\ peer \in {"connecting", "connected"}
    /\ client # "closed"
    /\ nSent < MaxSends
    /\ \E seg \in Segments :
        /\ pending' = pending \o seg
        /\ nSent' = nSent + 1
    /\ UNCHANGED << ownerPc, sock, threadPc, client, peer, connVars, port, boundPort, qXferOverride, codec >>

\* The client closes its end.
ClientClose ==
    /\ peer \in {"connecting", "connected"}
    /\ peer' = "closed"
    /\ UNCHANGED << ownerPc, sock, threadPc, client, pending, nSent, connVars, port, boundPort, qXferOverride, codec >>

\* _run: accept() returns the client's connection; the connection state is set.
Accept ==
    /\ threadPc = "accept"
    /\ peer \in {"connecting", "closed"}
    /\ client = "none"
    /\ client' = "open"
    /\ peer' = IF peer = "connecting" THEN "connected" ELSE peer
    /\ shouldSendAck' = TRUE
    /\ isExpectingAck' = FALSE
    /\ receivedData' = << >>
    /\ receivedDataOffset' = 0
    /\ threadPc' = "recv"
    /\ UNCHANGED << ownerPc, sock, pending, nSent, packetLog, wire, events, consumed, parked, port, boundPort, qXferOverride, codec >>

\* Mutant: the exception of accept() is not caught and ends the thread.
AcceptFails_Raises ==
    /\ threadPc = "accept"
    /\ peer = "idle" \/ sock = "closed"
    /\ threadPc' = "raised"
    /\ UNCHANGED << ownerPc, sock, client, peer, pending, nSent, connVars, port, boundPort, qXferOverride, codec >>

\* _run: accept() raises (the 2 s timeout, or the socket stop() closed): return.
AcceptFails ==
    /\ threadPc = "accept"
    /\ peer = "idle" \/ sock = "closed"
    /\ threadPc' = "done"
    /\ UNCHANGED << ownerPc, sock, client, peer, pending, nSent, connVars, port, boundPort, qXferOverride, codec >>

\* _run: recv() returns the first n of the bytes sent, and _receive(data) runs.
RecvBytes(n) ==
    /\ threadPc = "recv"
    /\ client = "open"
    /\ n >= 1
    /\ n <= Len(pending)
    /\  \E st \in {Receive(ServerState, SubSeq(pending, 1, n))} :
            /\ n <= RecvSize
            /\ pending' = SubSeq(pending, n + 1, Len(pending))
            /\ consumed' = consumed \o SubSeq(pending, 1, n)
            /\ receivedData' = st.data
            /\ receivedDataOffset' = st.offset
            /\ shouldSendAck' = st.acks
            /\ isExpectingAck' = st.expecting
            /\ packetLog' = st.log
            /\ wire' = st.wire
            /\ events' = st.events
            /\ parked' = (parked \/ (st.status = "ok" /\ st.offset < Len(st.data)))
            /\ client' = ClientAfterReceive(st.status, client)
            /\ threadPc' = IF st.status = "raised" THEN "raised" ELSE threadPc
    /\ UNCHANGED << ownerPc, sock, peer, nSent, port, boundPort, qXferOverride, codec >>

\* _run: recv() returns n bytes, 0 < n <= 4096, of those the client has sent.
RecvData == \E n \in 1..Len(pending) : RecvBytes(n)

\* Mutant: after the end of a connection _run goes back to accept().
RecvEOF_AcceptAgain ==
    /\ threadPc = "recv"
    /\ client = "open"
    /\ pending = << >>
    /\ peer = "closed"
    /\ threadPc' = "accept"
    /\ client' = "none"
    /\ UNCHANGED << ownerPc, sock, peer, pending, nSent, connVars, port, boundPort, qXferOverride, codec >>

\* _run: recv() returns "" (the client closed its end): break.
RecvEOF ==
    /\ threadPc = "recv"
    /\ client = "open"
    /\ pending = << >>
    /\ peer = "closed"
    /\ threadPc' = "done"
    /\ UNCHANGED << ownerPc, sock, client, peer, pending, nSent, connVars, port, boundPort, qXferOverride, codec >>

\* _run: recv() raises (_receive closed the socket): _client.close(), break.
RecvRaises ==
    /\ threadPc = "recv"
    /\ client = "closed"
    /\ threadPc' = "done"
    /\ pending' = << >>
    /\ UNCHANGED << ownerPc, sock, client, peer, nSent, connVars, port, boundPort, qXferOverride, codec >>

Next ==
    \/ StartBind
    \/ StartThread
    \/ StopClose
    \/ StopJoin
    \/ ClientConnect
    \/ ClientSend
    \/ ClientClose
    \/ Accept
    \/ AcceptFails
    \/ RecvData
    \/ RecvEOF
    \/ RecvRaises

Spec == Init /\ [][Next]_vars

\* ------------------------------------------------------ command sessions

\* The commands a client sends in a command session: every family of the
\* dispatch chain, well formed and malformed, and commands no pattern matches.
Commands ==
    { << "g" >>,
      << "+", "$" >>,
      << "G", "0", "0" >>,
      << "p", "1", "f" >>,
      << "p", "z", "z" >>,
      << "P", "1", "=", "0", "a" >>,
      << "m", "1", "0", ",", "2" >>,
      << "m", "1", "0" >>,
      << "M", "1", "0", ",", "1", ":", "f", "f" >>,
      Str_qSymbol \o << ":", ":" >>,
      Str_qSupported \o << ":", "x", "+", ";", "y", "-" >>,
      Str_qfThreadInfo,
      << "q", "C" >>,
      << "?" >>,
      << "H", "g", "0" >>,
      << "H", "c", "-", "1" >>,
      << "H", "g" >>,
      << >>,
      << "Z", "Z", "[" >>,
      << "v", "C", "o", "n", "t", "?" >> }

\* What the client writes with one send() in a command session: one framed
\* command, or an ack and two framed commands written together.
CommandSegments ==
    { frame_packet(c) : c \in Commands }
        \cup { << "+" >> \o frame_packet(<< "q", "C" >>) \o frame_packet(<< "?" >>) }

\* The client sends a framed command.
ClientSendCommand ==
    /\ peer \in {"connecting", "connected"}
    /\ client # "closed"
    /\ nSent < MaxCommands
    /\ \E seg \in CommandSegments :
        /\ pending' = pending \o seg
        /\ nSent' = nSent + 1
    /\ UNCHANGED << ownerPc, sock, threadPc, client, peer, connVars, port, boundPort, qXferOverride, codec >>

\* _run: recv() returns all the bytes the client has sent.
RecvAll == RecvBytes(Len(pending))

\* A command session: the client connects, sends framed commands and stays
\* connected; every recv() returns all the bytes sent so far.
CommandNext ==
    \/ StartBind
    \/ StartThread
    \/ ClientConnect
    \/ Accept
    \/ ClientSendCommand
    \/ RecvAll

CommandSpec == Init /\ [][CommandNext]_vars

\* -------------------------------------------------- configured servers

\* The bytes of the data an overridden qXferRead returns.
XferAlphabet == { "#", "$", "}", "{", "a" }

\* The data an overridden qXferRead returns.
XferData == UNION { [1..k -> XferAlphabet] : k \in 0..MaxXferLen }

\* qXferRead of the responder's class: the base method, or an override that
\* returns (data, has_more).
Overrides ==
    { qXferReadBase }
        \cup { [hasData |-> TRUE, data |-> d, has_more |-> m] :
                    d \in XferData, m \in BOOLEAN }

\* The port argument of MockGDBServer.
RequestedPorts == { 0, 6000 }

\* A qXfer read command, the same with a malformed location, and "qC".
XferCommand ==
    Str_qXfer \o << "f", ":", "r", "e", "a", "d", ":", "t", ":", "0", ",", "f", "f" >>

XferCommands ==
    { XferCommand,
      Str_qXfer \o << "f", ":", "r", "e", "a", "d", ":", "t", ":", "z", "z" >>,
      << "q", "C" >> }

ConfiguredInit ==
    /\ \E requested \in RequestedPorts, override \in Overrides :
            Constructed(requested, override)
    /\ codec = CodecIdle

\* The client sends a framed command of XferCommands.
ClientSendXfer ==
    /\ peer \in {"connecting", "connected"}
    /\ client # "closed"
    /\ nSent < MaxCommands
    /\ \E c \in XferCommands :
        /\ pending' = pending \o frame_packet(c)
        /\ nSent' = nSent + 1
    /\ UNCHANGED << ownerPc, sock, threadPc, client, peer, connVars, port, boundPort, qXferOverride, codec >>

\* A session with a server built with a port argument and a responder
\* subclass: the client connects and sends qXfer reads.
ConfiguredNext ==
    \/ StartBind
    \/ StartThread
    \/ ClientConnect
    \/ Accept
    \/ ClientSendXfer
    \/ RecvAll

ConfiguredSpec == ConfiguredInit /\ [][ConfiguredNext]_vars

\* ------------------------------------------------------------ hex codec

\* The bytes of the strings given to hex_encode_bytes: 0x0a, "0", "J", "z".
HexAlphabet == { Chr(10), "0", "J", "z" }

HexInputs == UNION { [1..k -> HexAlphabet] : k \in 0..MaxHexLen }

\* The upper-case form of a string of hex digits.
UpperHex(text) == [j \in 1..Len(text) |-> UpperHexDigits[HexDigitValue(text[j]) + 1]]

CodecInit ==
    /\ Constructed(0, qXferReadBase)
    /\ \E b \in HexInputs :
        codec = [pc |-> "input", input |-> b, text |-> << >>, output |-> << >>]

\* The caller encodes its bytes, and writes the digits in lower or upper case.
HexEncode ==
    /\ codec.pc = "input"
    /\ \E upper \in BOOLEAN :
        LET text == hex_encode_bytes(codec.input)
        IN  codec' = [codec EXCEPT !.pc = "encoded",
                                   !.text = IF upper THEN UpperHex(text) ELSE text]
    /\ UNCHANGED << ownerPc, sock, threadPc, client, peer, pending, nSent, connVars,
                    port, boundPort, qXferOverride >>

\* The caller decodes the digits.
HexDecode ==
    /\ codec.pc = "encoded"
    /\ LET r == hex_decode_bytes(codec.text)
       IN  codec' = [codec EXCEPT !.pc = IF r.raised THEN "raised" ELSE "decoded",
                                  !.output = r.reply]
    /\ UNCHANGED << ownerPc, sock, threadPc, client, peer, pending, nSent, connVars,
                    port, boundPort, qXferOverride >>

CodecNext == HexEncode \/ HexDecode

CodecSpec == CodecInit /\ [][CodecNext]_vars

\* ------------------------------------------------------------ properties

\* The connection state _run sets after the accept, before any byte is read.
FreshState ==
    [data |-> << >>, offset |-> 0, acks |-> TRUE, expecting |-> FALSE,
     log |-> << >>, wire |-> << >>, events |-> << >>, status |-> "ok"]

\* The bytes of the sendall() calls made while serving event number k, in order.
RECURSIVE BytesOf(_, _)
BytesOf(w, k) ==
    IF w = << >> THEN << >>
    ELSE (IF Head(w).ev = k THEN << Head(w).bytes >> ELSE << >>) \o BytesOf(Tail(w), k)

WritesFor(k) == BytesOf(wire, k)

Plus == << "+" >>

IsAck(k) == events[k].res = "ack"
IsCommand(k) == events[k].res = "packet"
IsInvalid(k) == events[k].res = "invalid"
IsNoAckCommand(k) == IsCommand(k) /\ events[k].packet = Str_QStartNoAckMode

\* The two handshake flags right after event number k was handled.
AcksAfter(k) == IF k < Len(events) THEN events[k + 1].acks ELSE shouldSendAck
ExpectingAfter(k) == IF k < Len(events) THEN events[k + 1].expecting ELSE isExpectingAck

\* The commands handed to the responder: every command but QStartNoAckMode.
RECURSIVE DispatchedOf(_)
DispatchedOf(ev) ==
    IF ev = << >> THEN << >>
    ELSE (IF Head(ev).res = "packet" /\ Head(ev).packet # Str_QStartNoAckMode
          THEN << Head(ev).packet >> ELSE << >>) \o DispatchedOf(Tail(ev))

\* The parser events of one _receive of the bytes s on a fresh connection.
SingleChunkEvents(s) == Receive(FreshState, s).events

IsPrefix(s, t) == Len(s) <= Len(t) /\ s = SubSeq(t, 1, Len(s))

\* C1: parser resumability.  However the byte stream of the client is cut into
\* chunks, the parser events (acks, packets, the InvalidPacket failure, each
\* with the handshake flags it is handled under) are those a single _receive
\* of the stream produces on a fresh connection: the events of the chunks read
\* so far are those of the bytes read so far, they begin the events of the
\* whole stream sent, and they are all of them once every byte is read or the
\* connection has failed.  In particular a packet whose "#" or checksum digits
\* are cut yields no event until the rest is read, and then one packet.
C1_ParserResumable ==
    client # "none" =>
        /\ events = SingleChunkEvents(consumed)
        /\ IsPrefix(events, SingleChunkEvents(consumed \o pending))
        /\ (pending = << >> \/ client = "closed" \/ threadPc = "raised") =>
                events = SingleChunkEvents(consumed \o pending)

\* C1 witness: a read ended inside the trailer of "$?#3f" and a later read
\* completed it into the one packet "?".
C1_Witness ==
    /\ parked
    /\ consumed = frame_packet(<< "?" >>)
    /\ Len(events) = 1
    /\ events[1].res = "packet"
    /\ events[1].packet = << "?" >>

\* C2: end-to-end handshake.  On a fresh connection a first "+" of the client
\* is answered by exactly one "+"; a QStartNoAckMode that follows is answered by
\* "+" and then the framed "OK"; every later command is answered without "+".
C2_HandshakeSequence ==
    /\ (Len(events) >= 1 /\ IsAck(1)) => WritesFor(1) = << Plus >>
    /\ (Len(events) >= 2 /\ IsAck(1) /\ IsNoAckCommand(2)) =>
        /\ WritesFor(2) = << Plus, frame_packet(Str_OK) >>
        /\ \A k \in 3..Len(events) :
            IsCommand(k) => \A j \in 1..Len(WritesFor(k)) : WritesFor(k)[j] # Plus

\* C2 witness: "+", QStartNoAckMode and "?" were handled, "?" answered "S02".
C2_Witness ==
    /\ Len(events) = 3
    /\ IsAck(1)
    /\ IsNoAckCommand(2)
    /\ IsCommand(3)
    /\ WritesFor(3) = << frame_packet(<< "S", "0", "2" >>) >>

\* C3: a command handled while send-acks is true gets a bare "+" first and
\* expecting-ack is true afterwards; a framed reply to such a command directly
\* follows that "+" on the wire.
C3_AckBeforeReply ==
    /\ \A k \in 1..Len(events) :
        (IsCommand(k) /\ events[k].acks) =>
            /\ WritesFor(k) # << >>
            /\ WritesFor(k)[1] = Plus
            /\ ExpectingAfter(k)
    /\ \A j \in 1..Len(wire) :
        (wire[j].bytes[1] = "$" /\ events[wire[j].ev].acks) =>
            /\ j > 1
            /\ wire[j - 1] = [ev |-> wire[j].ev, bytes |-> Plus]

\* C3 witness: "?" arrived first on the connection; "+" and "$S02#b5" were sent.
C3_Witness ==
    /\ Len(events) >= 1
    /\ IsCommand(1)
    /\ events[1].acks
    /\ WritesFor(1) = << Plus, frame_packet(<< "S", "0", "2" >>) >>

\* C4: an Ack token received while expecting-ack is false is answered by exactly
\* one bare "+", and nothing is handed to the responder for it: the log holds
\* the commands only.
C4_UnsolicitedAck ==
    /\ \A k \in 1..Len(events) :
        (IsAck(k) /\ ~events[k].expecting) => WritesFor(k) = << Plus >>
    /\ packetLog = DispatchedOf(events)

\* C4 witness: the first event of the connection is an Ack, answered "+".
C4_Witness ==
    /\ Len(events) >= 1
    /\ IsAck(1)
    /\ ~events[1].expecting
    /\ wire[1] = [ev |-> 1, bytes |-> Plus]

\* C5 (as claimed): an Ack token received while expecting-ack is true is
\* consumed silently and expecting-ack is false afterwards, so an Ack that
\* directly follows is handled as unsolicited.
C5_SolicitedAckClears ==
    \A k \in 1..Len(events) :
        (IsAck(k) /\ events[k].expecting) =>
            /\ WritesFor(k) = << >>
            /\ ~ExpectingAfter(k)

\* C6: send-acks is true and expecting-ack is false when the connection starts,
\* and send-acks, once false, is false in every later state of the connection.
C6_NoAckModeIsPermanent ==
    /\ [][(threadPc = "accept" /\ threadPc' = "recv") =>
            (shouldSendAck' /\ ~isExpectingAck')]_vars
    /\ [][(client # "none" /\ ~shouldSendAck) => ~shouldSendAck']_vars

\* C6 witness: no-ack mode was negotiated, and a second QStartNoAckMode, an Ack
\* or another command was handled after it.
C6_Witness ==
    /\ ~shouldSendAck
    /\ Len(events) = 3
    /\ IsNoAckCommand(1)
    /\ IsNoAckCommand(2)
    /\ IsAck(3)

\* C7: QStartNoAckMode is handled by the server itself: it is never in the
\* command log (respond is not called for it), the reply is the framed "OK",
\* and send-acks is false afterwards.
C7_NoAckCommandIntercepted ==
    /\ \A j \in 1..Len(packetLog) : packetLog[j] # Str_QStartNoAckMode
    /\ \A k \in 1..Len(events) :
        IsNoAckCommand(k) =>
            /\ WritesFor(k) # << >>
            /\ WritesFor(k)[Len(WritesFor(k))] = frame_packet(Str_OK)
            /\ ~AcksAfter(k)

\* C7 witness: QStartNoAckMode was the second command of the connection.
C7_Witness ==
    /\ Len(events) = 2
    /\ IsCommand(1)
    /\ packetLog = << << "?" >> >>
    /\ IsNoAckCommand(2)

\* The parser has raised InvalidPacketException.
InvalidSeen == events # << >> /\ IsInvalid(Len(events))

\* C8: when the parser raises InvalidPacket the client connection is closed,
\* nothing is written for the offending bytes, no later byte is parsed,
\* dispatched or answered, and the one step left to the receive loop is its end.
C8_InvalidPacketEndsConnection ==
    /\ [](InvalidSeen =>
            /\ client = "closed"
            /\ WritesFor(Len(events)) = << >>
            /\ threadPc \in {"recv", "done"}
            /\ threadPc = "recv" => (ENABLED RecvRaises /\ ~ENABLED RecvData))
    /\ [][InvalidSeen =>
            /\ wire' = wire
            /\ events' = events
            /\ packetLog' = packetLog
            /\ receivedData' = receivedData
            /\ consumed' = consumed
            /\ threadPc' \in {threadPc, "done"}]_vars

\* C8 witness: "$g#00" failed the checksum with more bytes buffered behind it,
\* and the receive loop has ended.
C8_Witness ==
    /\ InvalidSeen
    /\ events[Len(events)].why = "sum"
    /\ Len(receivedData) > 5
    /\ threadPc = "done"

\* C9: a packet is emitted only if the two characters after "#" convert to
\* checksum(payload); when they convert to another value the parser raises
\* InvalidPacket, nothing is written and the payload does not reach the log.
C9_ChecksumValidated ==
    /\ \A k \in 1..Len(events) :
        IsCommand(k) =>
            /\ IntBase16Ok(events[k].trailer)
            /\ IntBase16(events[k].trailer) = checksum(events[k].packet)
    /\ \A k \in 1..Len(events) :
        (IsInvalid(k) /\ events[k].why = "sum") =>
            /\ IntBase16(events[k].trailer) # checksum(events[k].packet)
            /\ WritesFor(k) = << >>
            /\ packetLog = DispatchedOf(SubSeq(events, 1, k - 1))
    /\ \A j \in 1..Len(packetLog) : packetLog[j] # << "g" >>

\* C9 witness: the packet "g" (checksum 67) arrived with the trailer "#00".
C9_Witness ==
    /\ InvalidSeen
    /\ events[Len(events)].why = "sum"
    /\ events[Len(events)].packet = << "g" >>
    /\ events[Len(events)].trailer = << "0", "0" >>

\* The parser has been run on a buffer that is at the start of a packet and
\* whose first byte is neither "+" nor "$".
BadLeadingByte ==
    /\ client # "none"
    /\ threadPc # "raised"
    /\ receivedDataOffset = 0
    /\ receivedData # << >>
    /\ receivedData[1] \notin {"+", "$"}

\* C10: at the start of a packet a first byte that is neither "+" nor "$" makes
\* the parser raise InvalidPacket; the connection is closed, and the byte stays
\* where it is: it is neither skipped nor parsed again.
C10_InvalidLeadingByte ==
    /\ BadLeadingByte =>
        /\ InvalidSeen
        /\ events[Len(events)].why = "lead"
        /\ client = "closed"
    /\ \A k \in 1..Len(events) :
        (IsInvalid(k) /\ events[k].why = "lead") =>
            /\ k = Len(events)
            /\ BadLeadingByte

\* C10 witness: "x" arrived after a complete command.
C10_Witness ==
    /\ InvalidSeen
    /\ events[Len(events)].why = "lead"
    /\ Len(events) = 2
    /\ IsCommand(1)
    /\ receivedData[1] = "x"

Last(s) == s[Len(s)]

\* The framed replies on the wire, in the order they were written.
FramedWrites == SelectSeq(wire, LAMBDA w : w.bytes[1] = "$")

\* The numbers of the events that are command packets, in order.
CommandIndexes == SelectSeq([k \in 1..Len(events) |-> k], LAMBDA k : IsCommand(k))

\* The handler of the last command raised: the command has no reply.
LastCommandRaised(k) == k = Len(events) /\ threadPc = "raised"

\* C11 (as claimed): a packet is emitted only if the two bytes after "#" are
\* both hexadecimal digits; any other trailer makes the parser raise
\* InvalidPacket.
C11_TrailerIsTwoHexDigits ==
    \A k \in 1..Len(events) :
        IsCommand(k) =>
            /\ Len(events[k].trailer) = 2
            /\ IsHexDigit(events[k].trailer[1])
            /\ IsHexDigit(events[k].trailer[2])

\* The bytes the events were parsed from, in order.
RECURSIVE StreamOf(_)
StreamOf(ev) ==
    IF ev = << >> THEN << >>
    ELSE (IF Head(ev).res = "ack" THEN Plus
          ELSE IF Head(ev).res = "packet"
          THEN << "$" >> \o Head(ev).packet \o << "#" >> \o Head(ev).trailer
          ELSE << >>) \o StreamOf(Tail(ev))

\* The buffer does not begin with an ack or with a complete packet.
NoCompleteEventBuffered ==
    \/ receivedData = << >>
    \/ /\ receivedData[1] = "$"
       /\ \A j \in 1..Len(receivedData) :
            receivedData[j] = "#" => j + 2 > Len(receivedData)

\* C12: every complete event one read delivers is emitted and handled, in
\* stream order, before the next read: when the loop is back at recv() the
\* buffer begins with no ack and no complete packet, the events spell the bytes
\* read in their order, and every command but one whose handler raised has its
\* framed reply.
C12_AllBufferedEventsHandled ==
    client # "none" =>
        /\ StreamOf(events) \o receivedData = consumed
        /\ (threadPc = "recv" /\ client = "open") => NoCompleteEventBuffered
        /\ \A k \in 1..Len(events) :
            (IsCommand(k) /\ ~LastCommandRaised(k)) =>
                (WritesFor(k) # << >> /\ Last(WritesFor(k))[1] = "$")

\* C12 witness: the one send "+$qC#b4$?#3f" was read at once: the Ack, then
\* "qC", then "?".
C12_Witness ==
    /\ nSent = 1
    /\ pending = << >>
    /\ Len(events) = 3
    /\ IsAck(1)
    /\ IsCommand(2) /\ events[2].packet = << "q", "C" >>
    /\ IsCommand(3) /\ events[3].packet = << "?" >>
    /\ WritesFor(1) = << Plus >>
    /\ Len(FramedWrites) = 2

\* C13: round-trip framing.  For a payload P without "#", parsing
\* frame_packet(P) from an empty buffer yields the one packet P and leaves the
\* buffer empty with the cursor at 0.
C13_FramingRoundTrip ==
    \A P \in Commands :
        (client # "none" /\ consumed = frame_packet(P)
                /\ \A j \in 1..Len(P) : P[j] # "#") =>
            /\ Len(events) = 1
            /\ events[1].res = "packet"
            /\ events[1].packet = P
            /\ receivedData = << >>
            /\ receivedDataOffset = 0

\* C13 witness: "ZZ[", whose checksum 0x0f needs its zero padding, came back.
C13_Witness ==
    /\ consumed = << "$", "Z", "Z", "[", "#", "0", "f" >>
    /\ Len(events) = 1
    /\ events[1].packet = << "Z", "Z", "[" >>
    /\ receivedData = << >>

\* The reply of the server to a command.
ReplyTo(packet) ==
    IF packet = Str_QStartNoAckMode THEN Str_OK ELSE Dispatch(packet).reply

\* C14: replies are in the order of the commands: the k-th framed reply on the
\* wire was written for the k-th command parsed and is the reply to it, and
\* only the last command (its handler raised) can be without a reply.
C14_RepliesInCommandOrder ==
    /\ \A j \in 1..Len(FramedWrites) :
        /\ j <= Len(CommandIndexes)
        /\ FramedWrites[j].ev = CommandIndexes[j]
        /\ FramedWrites[j].bytes = frame_packet(ReplyTo(events[CommandIndexes[j]].packet))
    /\ \/ Len(FramedWrites) = Len(CommandIndexes)
       \/ /\ Len(FramedWrites) = Len(CommandIndexes) - 1
          /\ LastCommandRaised(Last(CommandIndexes))

\* C14 witness: "?", "ZZ[" and QStartNoAckMode got their three replies.
C14_Witness ==
    /\ Len(events) = 3
    /\ IsCommand(1) /\ events[1].packet = << "?" >>
    /\ IsCommand(2) /\ events[2].packet = << "Z", "Z", "[" >>
    /\ IsNoAckCommand(3)
    /\ Len(FramedWrites) = 3

\* C15: the command log is append-only and in dispatch order: it is the
\* sequence of the commands passed to respond, and each value of the log is a
\* prefix of the next.
C15_LogAppendOnly ==
    /\ [](packetLog = DispatchedOf(events))
    /\ [][IsPrefix(packetLog, packetLog')]_vars

\* C15 witness: two different commands are in the log, in their order.
C15_Witness ==
    packetLog = << << "?" >>, << "Z", "Z", "[" >> >>

\* C16: a command is in the log before its handler runs: the log has one entry
\* for each command, and a command whose handler raised is its last entry.
C16_LoggedBeforeHandler ==
    /\ Len(packetLog) = Len(CommandIndexes)
    /\ threadPc = "raised" =>
        /\ IsCommand(Len(events))
        /\ packetLog # << >>
        /\ Last(packetLog) = events[Len(events)].packet

\* C16 witness: "pzz" raised on its register number and is the last entry.
C16_Witness ==
    /\ threadPc = "raised"
    /\ Len(packetLog) = 2
    /\ Last(packetLog) = << "p", "z", "z" >>

\* Commands that match a pattern and have a malformed field.
MalformedCommands ==
    { << "p", "z", "z" >>, << "m", "1", "0" >>, << "H", "g" >> }

\* C17 (as claimed): a command with a malformed field ends the connection as
\* a framing error does: the client connection is closed, the command gets no
\* framed reply, and the receive loop has ended.
C17_MalformedFieldClosesConnection ==
    \A k \in 1..Len(events) :
        (IsCommand(k) /\ events[k].packet \in MalformedCommands) =>
            /\ client = "closed"
            /\ \A j \in 1..Len(WritesFor(k)) : WritesFor(k)[j][1] # "$"
            /\ threadPc \in {"recv", "done", "raised"}

\* Commands that no pattern of the dispatch chain matches.
UnmatchedCommands ==
    { << >>, << "+", "$" >>, << "Z", "Z", "[" >>,
      << "v", "C", "o", "n", "t", "?" >> }

\* C18 (as claimed): a command no pattern matches, the empty command included,
\* gets the empty payload from the other handler, sent as "$#00".
C18_UnmatchedCommandGetsEmptyReply ==
    \A k \in 1..Len(events) :
        (IsCommand(k) /\ events[k].packet \in UnmatchedCommands) =>
            /\ ~LastCommandRaised(k)
            /\ WritesFor(k) # << >>
            /\ Last(WritesFor(k)) = << "$", "#", "0", "0" >>

\* C19 (as claimed): "P<reg>=<value>" with valid hex fields reaches the
\* writeRegister handler and is answered "OK".
C19_WriteRegisterRepliesOK ==
    \A k \in 1..Len(events) :
        (IsCommand(k) /\ events[k].packet = << "P", "1", "=", "0", "a" >>) =>
            /\ ~LastCommandRaised(k)
            /\ WritesFor(k) # << >>
            /\ Last(WritesFor(k)) = frame_packet(Str_OK)

\* The dispatch table of the well-formed commands: command, reply.
DispatchTable ==
    { << << "g" >>, [i \in 1..(8 * 40) |-> "0"] >>,
      << << "G", "0", "0" >>, << "O", "K" >> >>,
      << << "p", "1", "f" >>, << "0", "0", "0", "0", "0", "0", "0", "0" >> >>,
      << << "m", "1", "0", ",", "2" >>, << "0", "0", "0", "0" >> >>,
      << << "M", "1", "0", ",", "1", ":", "f", "f" >>, << "O", "K" >> >>,
      << Str_qSymbol \o << ":", ":" >>, << "O", "K" >> >>,
      << Str_qSupported \o << ":", "x", "+", ";", "y", "-" >>, Str_PacketSize >>,
      << Str_qfThreadInfo, << "l" >> >>,
      << << "q", "C" >>, << "Q", "C", "0" >> >>,
      << << "?" >>, << "S", "0", "2" >> >>,
      << << "H", "g", "0" >>, << "O", "K" >> >>,
      << << "H", "c", "-", "1" >>, << "O", "K" >> >> }

\* C20: every well-formed command of the families g, G, p, m, M, qSymbol,
\* qSupported, qfThreadInfo, qC, ? and H is answered with the reply of the
\* dispatch table, framed.
C20_DefaultReplies ==
    \A k \in 1..Len(events) :
        \A e \in DispatchTable :
            (IsCommand(k) /\ events[k].packet = e[1]) =>
                /\ ~LastCommandRaised(k)
                /\ WritesFor(k) # << >>
                /\ Last(WritesFor(k)) = frame_packet(e[2])

\* C20 witness: "m10,2" was answered "0000" and "g" with 320 zeros.
C20_Witness ==
    /\ Len(events) = 2
    /\ IsCommand(1) /\ events[1].packet = << "m", "1", "0", ",", "2" >>
    /\ IsCommand(2) /\ events[2].packet = << "g" >>
    /\ WritesFor(1) = << Plus, << "$", "0", "0", "0", "0", "#", "c", "0" >> >>
    /\ Len(Last(WritesFor(2))) = 324

\* C22 (as claimed): stop() called while the connection thread is blocked in
\* recv() unblocks that recv(): with the client connected, silent and not
\* closing, the receive loop can end, so that the join of stop() returns.
C22_StopUnblocksRecv ==
    (ownerPc = "stopping" /\ threadPc = "recv" /\ client = "open"
            /\ pending = << >> /\ peer = "connected") =>
        ENABLED (RecvEOF \/ RecvRaises)

\* C23: if no client connects, accept() ends with its timeout, the connection
\* thread ends without raising and without entering the receive loop, and the
\* join of stop() can return.
C23_AcceptTimeoutEndsThread ==
    peer = "idle" =>
        /\ threadPc \in {"none", "accept", "done"}
        /\ client = "none"
        /\ events = << >> /\ consumed = << >> /\ wire = << >>
        /\ threadPc = "accept" => (ENABLED AcceptFails /\ ~ENABLED Accept)
        /\ (ownerPc = "stopping" /\ threadPc = "done") => ENABLED StopJoin
        /\ ownerPc = "stopped" => threadPc = "done"

\* C23 witness: stop() has returned and no client ever connected.
C23_Witness ==
    /\ peer = "idle"
    /\ ownerPc = "stopped"
    /\ threadPc = "done"
    /\ client = "none"

\* C24: a server accepts at most one connection: once accept() has returned
\* the thread never is at accept() again and _client never is another
\* connection, and after the connection's end nothing is served any more.
C24_SingleSession ==
    /\ [][(threadPc \in {"recv", "done", "raised"}) =>
            (threadPc' \in {"recv", "done", "raised"})]_vars
    /\ [][client # "none" => client' # "none"]_vars
    /\ [][(threadPc \in {"done", "raised"}) =>
            (threadPc' = threadPc /\ client' = client /\ connVars' = connVars)]_vars

\* C24 witness: the first connection ended with the client's EOF while the
\* socket of the server is still listening.
C24_Witness ==
    /\ threadPc = "done"
    /\ client = "open"
    /\ peer = "closed"
    /\ sock = "listening"
    /\ events # << >>

\* C25 (as claimed): when the receive loop has ended, on a zero-length read
\* as on a read error, the server has closed the client connection.
C25_LoopEndClosesClient ==
    (threadPc = "done" /\ client # "none") => client = "closed"

\* C26: when start() returns the socket is bound and listening and the port
\* field holds the bound port, the one the system assigned when port 0 was
\* asked for; the field is set before the connection thread exists, so before
\* any client is accepted.
C26_PortKnownAfterStart ==
    /\ ownerPc = "started" =>
        /\ sock = "listening"
        /\ boundPort # 0
        /\ port = boundPort
    /\ threadPc # "none" => (boundPort # 0 /\ port = boundPort)
    /\ client # "none" => port = boundPort

\* C26 witness: port 0 was asked for, start() has returned, and a client is
\* connecting to the assigned port before the thread has accepted it.
C26_Witness ==
    /\ ownerPc = "started"
    /\ port = EphemeralPort
    /\ peer = "connecting"
    /\ threadPc = "accept"
    /\ client = "none"

\* The fields of the connection: buffer, cursor, command log, handshake flags.
ConnectionFields ==
    << receivedData, receivedDataOffset, packetLog, shouldSendAck, isExpectingAck >>

\* C27: the receive buffer, the scan cursor, the command log and the two
\* handshake flags are written by the connection thread only: no step of
\* start() or stop() changes them, and they change only in a step of a running
\* connection thread.
C27_ConnectionFieldsOwnedByThread ==
    /\ [][ownerPc' # ownerPc => ConnectionFields' = ConnectionFields]_vars
    /\ [][ConnectionFields' # ConnectionFields =>
            (threadPc \in {"accept", "recv"} /\ ownerPc' = ownerPc)]_vars

\* C27 witness: stop() has returned after a connection that negotiated no-ack
\* mode and logged a command.
C27_Witness ==
    /\ ownerPc = "stopped"
    /\ packetLog # << >>
    /\ ~shouldSendAck
    /\ isExpectingAck

\* C28: scan-cursor invariant.  The cursor is between 0 and the length of the
\* buffer; a buffer with the cursor off 0 starts with "$" and has no "#"
\* between that "$" and the cursor; the bytes of every packet and ack emitted
\* are gone from the front of the buffer; and the cursor is 0 right after
\* every packet or ack is emitted.
C28_ScanCursor ==
    /\ receivedDataOffset \in 0..Len(receivedData)
    /\ receivedDataOffset > 0 => receivedData[1] = "$"
    /\ \A j \in 2..receivedDataOffset : receivedData[j] # "#"
    /\ client # "none" => StreamOf(events) \o receivedData = consumed
    /\ \A k \in 1..Len(events) : (IsAck(k) \/ IsCommand(k)) => events[k].cursor = 0

\* C28 witness: after the packet "?" a read ended on the "#" of the next
\* packet: the cursor is on that "#".
C28_Witness ==
    /\ Len(events) = 1
    /\ IsCommand(1)
    /\ receivedDataOffset > 1
    /\ receivedDataOffset < Len(receivedData)
    /\ receivedData[receivedDataOffset + 1] = "#"

\* C29 (as claimed): the two handshake flags change only when the server
\* handles QStartNoAckMode or an Ack token: any other command, and a rejected
\* packet, leave both flags as they were.
C29_FlagsChangeOnlyOnHandshake ==
    \A k \in 1..Len(events) :
        ((IsCommand(k) /\ ~IsNoAckCommand(k)) \/ IsInvalid(k)) =>
            /\ AcksAfter(k) = events[k].acks
            /\ ExpectingAfter(k) = events[k].expecting

\* C29 (amended): the two handshake flags change only when the server handles
\* a command packet or an Ack token: send-acks changes only on QStartNoAckMode,
\* every command handled while send-acks is true sets expecting-ack, and
\* parsing, a rejected packet and the Responder's handlers leave both flags as
\* they were.
C29_FlagsChangeOnlyOnCommands ==
    /\ events = << >> => (shouldSendAck /\ ~isExpectingAck)
    /\ \A k \in 1..Len(events) :
        /\ ~IsNoAckCommand(k) => AcksAfter(k) = events[k].acks
        /\ IsCommand(k) => ExpectingAfter(k) = (events[k].expecting \/ events[k].acks)
        /\ IsInvalid(k) => ExpectingAfter(k) = events[k].expecting

\* C29 witness: "?" set expecting-ack, an Ack was handled, and QStartNoAckMode
\* cleared send-acks.
C29_Witness ==
    /\ Len(events) = 3
    /\ IsCommand(1) /\ ~IsNoAckCommand(1)
    /\ ~events[1].expecting /\ events[2].expecting
    /\ IsAck(2)
    /\ IsNoAckCommand(3)
    /\ events[3].acks /\ ~shouldSendAck

\* C21: a well-formed qXfer read is answered with the empty payload when
\* qXferRead reports no data, with "m" and escape_binary(data) when it returns
\* data with more remaining, and with "l" and escape_binary(data) when it
\* returns the final chunk; qXferRead of the base class reports no data.
C21_QXferEnvelope ==
    /\ ~qXferReadBase.hasData
    /\ \A k \in 1..Len(events) :
        (IsCommand(k) /\ events[k].packet = XferCommand) =>
            /\ ~LastCommandRaised(k)
            /\ WritesFor(k) # << >>
            /\ ~qXferOverride.hasData =>
                    Last(WritesFor(k)) = << "$", "#", "0", "0" >>
            /\ (qXferOverride.hasData /\ qXferOverride.has_more) =>
                    Last(WritesFor(k)) =
                        frame_packet(<< "m" >> \o escape_binary(qXferOverride.data))
            /\ (qXferOverride.hasData /\ ~qXferOverride.has_more) =>
                    Last(WritesFor(k)) =
                        frame_packet(<< "l" >> \o escape_binary(qXferOverride.data))

\* C21 witness: qXferRead returned ("a", True) and the reply was "ma".
C21_Witness ==
    /\ qXferOverride = [hasData |-> TRUE, data |-> << "a" >>, has_more |-> TRUE]
    /\ Len(events) = 1
    /\ events[1].packet = XferCommand
    /\ WritesFor(1) = << Plus, << "$", "m", "a", "#", "c", "e" >> >>

\* The escape of one byte, as a table: 0x23, 0x24 and 0x7d become 0x7d and
\* the byte 0x03, 0x04 and 0x5d.
EscapedByte(c) ==
    IF c = "#" THEN << "}", "<3>" >>
    ELSE IF c = "$" THEN << "}", "<4>" >>
    ELSE IF c = "}" THEN << "}", "]" >>
    ELSE << c >>

\* The escapes of the bytes of a message, in order.
RECURSIVE EscapedBytes(_)
EscapedBytes(message) ==
    IF Len(message) = 0 THEN << >>
    ELSE EscapedBytes(SubSeq(message, 1, Len(message) - 1))
            \o EscapedByte(message[Len(message)])

\* The payload of a framed reply "$<prefix><payload>#xx" of a qXfer read.
XferPayload(framed) == SubSeq(framed, 3, Len(framed) - 3)

XferAnswered(k) ==
    /\ qXferOverride.hasData
    /\ k \in 1..Len(events)
    /\ IsCommand(k)
    /\ events[k].packet = XferCommand
    /\ WritesFor(k) # << >>

RECURSIVE ByteSum(_)
ByteSum(message) ==
    IF Len(message) = 0 THEN 0
    ELSE ByteSum(SubSeq(message, 1, Len(message) - 1)) + Ord(message[Len(message)])

\* C32: checksum(P) is the sum of the byte values of P modulo 256, a number
\* in 0..255; checksum("") is 0 and checksum("+$#") is 0x72.  Checked on the
\* payload of every packet the parser validated.
C32_ChecksumIsByteSumMod256 ==
    /\ checksum(<< >>) = 0
    /\ checksum(<< "+", "$", "#" >>) = 114
    /\ \A k \in 1..Len(events) :
        IsCommand(k) =>
            /\ checksum(events[k].packet) \in 0..255
            /\ checksum(events[k].packet) = ByteSum(events[k].packet) % 256

\* C32 witness: a payload whose byte sum is above 255, and the empty payload.
C32_Witness ==
    /\ Len(events) = 2
    /\ IsCommand(1)
    /\ events[1].packet = Str_qSupported \o << ":", "x", "+", ";", "y", "-" >>
    /\ ByteSum(events[1].packet) > 255
    /\ IsCommand(2)
    /\ events[2].packet = << >>

\* The lower-case hex digits.
LowerHexDigitSet == { HexDigits[n] : n \in 1..16 }

\* C33: frame_packet(P) is "$", P, "#" and two lower-case, zero-padded hex
\* digits that denote checksum(P); it is len(P) + 4 long and never fails:
\* every reply the server framed has this form.
C33_FrameLayout ==
    \A j \in 1..Len(wire) :
        wire[j].bytes[1] = "$" =>
            LET w == wire[j].bytes
                P == ReplyTo(events[wire[j].ev].packet)
                n == Len(P)
            IN  /\ Len(w) = n + 4
                /\ SubSeq(w, 2, n + 1) = P
                /\ w[n + 2] = "#"
                /\ w[n + 3] \in LowerHexDigitSet
                /\ w[n + 4] \in LowerHexDigitSet
                /\ 16 * HexDigitValue(w[n + 3]) + HexDigitValue(w[n + 4]) = checksum(P)

\* C33 witness: "OK" went out as "$OK#9a" and the empty payload as "$#00".
C33_Witness ==
    /\ Len(events) = 2
    /\ WritesFor(1) = << Plus, << "$", "O", "K", "#", "9", "a" >> >>
    /\ WritesFor(2) = << Plus, << "$", "#", "0", "0" >> >>

\* C34 (as claimed): hex round trip.  hex_decode_bytes does not fail, on
\* lower-case and on upper-case digits, and decoding hex_encode_bytes(B)
\* gives B, one byte for two digits.
C34_HexRoundTrip ==
    /\ codec.pc # "raised"
    /\ codec.pc = "decoded" =>
        /\ codec.output = codec.input
        /\ Len(codec.text) = 2 * Len(codec.output)

\* C35: once no-ack mode is negotiated the server writes no bare "+" any more:
\* every "+" on the wire was written for an event handled while send-acks was
\* true and before any QStartNoAckMode had been handled.
C35_NoPlusAfterNoAckMode ==
    \A j \in 1..Len(wire) :
        wire[j].bytes = Plus =>
            /\ events[wire[j].ev].acks
            /\ \A i \in 1..(wire[j].ev - 1) : ~IsNoAckCommand(i)

\* C35 witness: after QStartNoAckMode an Ack token got no answer and "?" got
\* its reply without "+".
C35_Witness ==
    /\ Len(events) = 3
    /\ IsNoAckCommand(1)
    /\ IsAck(2)
    /\ WritesFor(2) = << >>
    /\ IsCommand(3)
    /\ WritesFor(3) = << << "$", "S", "0", "2", "#", "b", "5" >> >>

\* C36: the "+" for a command is written before the responder runs: a command
\* whose handler raised was acknowledged with "+" if send-acks was true, has no
\* framed reply, and its bytes are gone from the buffer.
C36_AckedBeforeHandler ==
    threadPc = "raised" =>
        /\ events # << >>
        /\ IsCommand(Len(events))
        /\ WritesFor(Len(events)) = IF events[Len(events)].acks THEN << Plus >> ELSE << >>
        /\ events[Len(events)].acks => isExpectingAck
        /\ StreamOf(events) \o receivedData = consumed

\* C36 witness: the empty command raised in ack mode after a first command:
\* its "+" is on the wire and the buffer is empty.
C36_Witness ==
    /\ threadPc = "raised"
    /\ Len(events) = 2
    /\ events[2].acks
    /\ events[2].packet = << >>
    /\ WritesFor(2) = << Plus >>
    /\ receivedData = << >>

\* The numbers of the events that are commands other than QStartNoAckMode.
DispatchedIndexes ==
    SelectSeq([k \in 1..Len(events) |-> k],
              LAMBDA k : IsCommand(k) /\ ~IsNoAckCommand(k))

\* C37: every entry of the command log is the payload of a packet that passed
\* the checksum validation and is not QStartNoAckMode: the log has one entry
\* for each such packet, in order, and none for an incomplete packet, for a
\* packet that failed the validation or for an Ack token.
C37_LogHoldsValidatedCommands ==
    /\ Len(packetLog) = Len(DispatchedIndexes)
    /\ \A j \in 1..Len(packetLog) :
        /\ j <= Len(DispatchedIndexes)
        /\ packetLog[j] = events[DispatchedIndexes[j]].packet
        /\ packetLog[j] # Str_QStartNoAckMode
        /\ IntBase16Ok(events[DispatchedIndexes[j]].trailer)
        /\ IntBase16(events[DispatchedIndexes[j]].trailer) = checksum(packetLog[j])

\* C37 witness: an Ack, "?", and "g" with a wrong checksum: the log holds "?"
\* only.
C37_Witness ==
    /\ Len(events) = 3
    /\ IsAck(1)
    /\ IsCommand(2)
    /\ IsInvalid(3) /\ events[3].why = "sum"
    /\ packetLog = << << "?" >> >>

\* C38: an incomplete result consumes no byte, writes nothing, logs nothing and
\* leaves the flags alone; only the cursor may change, and it never goes back.
\* At recv() the parser's answer on the buffer, empty or not, is "incomplete",
\* and a read that yields incomplete results only appends the bytes read.
C38_IncompleteChangesCursorOnly ==
    /\ []((threadPc = "recv" /\ client = "open") =>
            /\ parsePacket(receivedData, receivedDataOffset).res = "none"
            /\ parsePacket(receivedData, receivedDataOffset).data = receivedData
            /\ parsePacket(receivedData, receivedDataOffset).offset >= receivedDataOffset)
    /\ [][(events' = events /\ consumed' # consumed) =>
            /\ IsPrefix(receivedData, receivedData')
            /\ Len(receivedData') - Len(receivedData) = Len(consumed') - Len(consumed)
            /\ wire' = wire
            /\ packetLog' = packetLog
            /\ shouldSendAck' = shouldSendAck
            /\ isExpectingAck' = isExpectingAck
            /\ receivedDataOffset' >= receivedDataOffset]_vars

\* C38 witness: two reads, "$" and "?#", both incomplete: the cursor is on "#".
C38_Witness ==
    /\ events = << >>
    /\ wire = << >>
    /\ receivedData = << "$", "?", "#" >>
    /\ receivedDataOffset = 2
    /\ pending = << "3", "f" >>

\* The number of "#" bytes of a string.
HashCount(w) == Cardinality({ j \in 1..Len(w) : w[j] = "#" })

\* C39: the output of escape_binary has no "#" and no "$", so the framed qXfer
\* reply has "#" as its terminator only and the packet parser reads it back as
\* one packet whose payload is the escaped reply.
C39_EscapedReplyParsesBack ==
    qXferOverride.hasData =>
        /\ \A j \in 1..Len(escape_binary(qXferOverride.data)) :
                escape_binary(qXferOverride.data)[j] \notin {"#", "$"}
        /\ \A k \in 1..Len(events) :
            XferAnswered(k) =>
                LET w == Last(WritesFor(k))
                    r == parsePacket(w, 0)
                IN  /\ HashCount(w) = 1
                    /\ r.res = "packet"
                    /\ r.packet = << IF qXferOverride.has_more THEN "m" ELSE "l" >>
                                        \o escape_binary(qXferOverride.data)
                    /\ r.data = << >>
                    /\ r.offset = 0

\* C39 witness: the data "#$" went out escaped and is read back as one packet.
C39_Witness ==
    /\ qXferOverride.data = << "#", "$" >>
    /\ qXferOverride.has_more
    /\ XferAnswered(1)
    /\ parsePacket(Last(WritesFor(1)), 0).packet = << "m", "}", "<3>", "}", "<4>" >>

====
